---------------------------- MODULE Spec2Model ----------------------------
(***************************************************************************)
(* Model of the face-recognition attendance system:                        *)
(*   src/db_operations.py          DatabaseManager (the persistent store)  *)
(*   src/face_recognition_module.py FaceRecognitionSystem (the gallery,    *)
(*                                  enrollment and recognition)            *)
(*   src/app.py                    session start-up and the live loop of   *)
(*                                  home_page                              *)
(*                                                                         *)
(* An image or frame is the sequence of face descriptors the extractor     *)
(* (face_recognition.face_locations / face_encodings) finds in it; a       *)
(* bounding box is the index of the face in that sequence.  A descriptor   *)
(* is a vector of integers in units of 0.1, so the tolerance 0.6 is 6.     *)
(* Euclidean distances are kept squared: d1 <= d2 iff d1^2 <= d2^2 for     *)
(* non-negative distances, so argmin and the tolerance test are the same   *)
(* on squared distances as on distances.                                   *)
(***************************************************************************)
EXTENDS Integers, Sequences, FiniteSets, TLC

VARIABLES
    connection,            \* DatabaseManager.connection: "None" or "open"
    face_system,           \* st.session_state.face_system: "absent" or "constructed"
    users,                 \* table users: sequence of [id, name]
    face_encodings,        \* table face_encodings: sequence of [user_id, encoding]
    attendance,            \* table attendance: sequence of user_id
    known_face_encodings,  \* FaceRecognitionSystem.known_face_encodings
    known_face_names,      \* FaceRecognitionSystem.known_face_names
    known_face_ids,        \* FaceRecognitionSystem.known_face_ids
    ret,                   \* the latest call into FaceRecognitionSystem and what it returned
    prev,                  \* history: the enrollment the call before the latest one made, if any
    webcam_running,        \* st.session_state.webcam_running
    loop                   \* home_page's while loop: "idle" or "running"

vars == <<connection, face_system, users, face_encodings, attendance,
          known_face_encodings, known_face_names, known_face_ids,
          ret, prev, webcam_running, loop>>

gallery == <<known_face_encodings, known_face_names, known_face_ids>>
store == <<users, face_encodings, attendance>>

----------------------------------------------------------------------------
(* Bounds of the model *)

MaxFaces == 2
MaxUsers == 2
MaxAttendance == 2

Names == {"Alice", "Bob"}
Descriptors == {<<0, 0>>, <<6, 0>>, <<0, 6>>}

RECURSIVE SeqsUpTo(_, _)
SeqsUpTo(S, n) ==
    IF n = 0 THEN {<<>>}
    ELSE LET shorter == SeqsUpTo(S, n - 1)
         IN shorter \cup {Append(s, x) : s \in {t \in shorter : Len(t) = n - 1}, x \in S}

Images == SeqsUpTo(Descriptors, MaxFaces)

----------------------------------------------------------------------------
(* Program constants *)

Tolerance == 6
None == 0
Unknown == "Unknown"

MsgNoFace == "No face detected in the image"
MsgMultipleFaces == "Multiple faces detected. Please provide an image with only one face"
MsgRegistered == "User registered successfully"
MsgFailed == "Failed to register user"

----------------------------------------------------------------------------
(* The extractor: face_recognition.face_locations and face_encodings *)

fr_face_locations(image) == [i \in 1..Len(image) |-> i]
fr_face_encodings(image, locations) == [i \in 1..Len(locations) |-> image[locations[i]]]

(* pickle.dumps / pickle.loads of a descriptor: the BLOB is an opaque value *)
(* that is not a descriptor, and loads recovers the descriptor from it.     *)
pickle_dumps(face_encoding) == [pickled |-> face_encoding]
pickle_loads(encoding_bytes) == encoding_bytes.pickled

----------------------------------------------------------------------------
(* DatabaseManager: each write either commits or fails with                *)
(* mysql.connector.Error, which the method catches (ok = FALSE).           *)

(* add_user returning an id although the INSERT failed *)
add_user_phantom_id(name, ok) ==
    IF ok
    THEN [users |-> Append(users, [id |-> Len(users) + 1, name |-> name]),
          user_id |-> Len(users) + 1]
    ELSE [users |-> users, user_id |-> Len(users) + 1]

add_user(name, ok) ==
    IF ok
    THEN [users |-> Append(users, [id |-> Len(users) + 1, name |-> name]),
          user_id |-> Len(users) + 1]
    ELSE [users |-> users, user_id |-> None]

add_face_encoding(user_id, face_encoding, ok) ==
    IF ok
    THEN [face_encodings |-> Append(face_encodings,
               [user_id |-> user_id, encoding |-> pickle_dumps(face_encoding)]),
          success |-> TRUE]
    ELSE [face_encodings |-> face_encodings, success |-> FALSE]

(* SELECT u.id, u.name, f.encoding FROM users u JOIN face_encodings f      *)
(* ON u.id = f.user_id: one result per face_encodings row, here in the     *)
(* order of the rows' primary keys.                                        *)
get_all_face_encodings(us, fes, ok) ==
    IF ok
    THEN [i \in 1..Len(fes) |->
            LET u == CHOOSE r \in {us[k] : k \in 1..Len(us)} : r.id = fes[i].user_id
            IN [id |-> u.id, name |-> u.name, encoding |-> pickle_loads(fes[i].encoding)]]
    ELSE <<>>

(* record_attendance skipping a user who already has a row *)
record_attendance_dedup(att, user_id, ok) ==
    [attendance |-> IF ok /\ \A k \in 1..Len(att) : att[k] # user_id
                    THEN Append(att, user_id) ELSE att,
     result |-> ok,
     raised |-> FALSE]

(* record_attendance letting the store's error escape *)
record_attendance_propagates(att, user_id, ok) ==
    [attendance |-> IF ok THEN Append(att, user_id) ELSE att,
     result |-> ok,
     raised |-> ~ok]

record_attendance(att, user_id, ok) ==
    [attendance |-> IF ok THEN Append(att, user_id) ELSE att,
     result |-> ok,
     raised |-> FALSE]

----------------------------------------------------------------------------
(* face_recognition.face_distance, compare_faces and numpy.argmin *)

SqDist(a, b) == (a[1] - b[1]) * (a[1] - b[1]) + (a[2] - b[2]) * (a[2] - b[2])

face_distance(encodings, face_encoding) ==
    [i \in 1..Len(encodings) |-> SqDist(encodings[i], face_encoding)]

(* compare_faces with a strict comparison *)
compare_faces_strict(encodings, face_encoding, tolerance) ==
    [i \in 1..Len(encodings) |->
        face_distance(encodings, face_encoding)[i] < tolerance * tolerance]

compare_faces(encodings, face_encoding, tolerance) ==
    [i \in 1..Len(encodings) |->
        face_distance(encodings, face_encoding)[i] <= tolerance * tolerance]

(* argmin returning the last of several minima *)
argmin_last(distances) ==
    CHOOSE i \in 1..Len(distances) :
        /\ \A j \in 1..Len(distances) : distances[i] <= distances[j]
        /\ \A j \in (i + 1)..Len(distances) : distances[j] > distances[i]

argmin(distances) ==
    CHOOSE i \in 1..Len(distances) :
        /\ \A j \in 1..Len(distances) : distances[i] <= distances[j]
        /\ \A j \in 1..(i - 1) : distances[j] > distances[i]

----------------------------------------------------------------------------
(* The record of a call into FaceRecognitionSystem *)

NoCall ==
    [op |-> "none", name |-> "", image |-> <<>>, ok |-> FALSE, message |-> "",
     user_id |-> None, success |-> FALSE, raised |-> FALSE,
     face_locations |-> <<>>, face_names |-> <<>>, recognized_ids |-> <<>>,
     db_ok |-> <<>>]

(* The identity a call enrolled: register_new_face's, when it succeeded *)
NoEnrollment == [name |-> "", user_id |-> None, encoding |-> <<>>]
Enrolled(call) ==
    IF call.op = "register" /\ call.ok
    THEN [name |-> call.name, user_id |-> call.user_id, encoding |-> call.image[1]]
    ELSE NoEnrollment

----------------------------------------------------------------------------
(* FaceRecognitionSystem.__init__ with DatabaseManager.__init__/connect    *)

(* The gallery lists built from the rows get_all_face_encodings returns *)
LoadedEncodings(face_data) == [i \in 1..Len(face_data) |-> face_data[i].encoding]
LoadedNames(face_data) == [i \in 1..Len(face_data) |-> face_data[i].name]
LoadedIds(face_data) == [i \in 1..Len(face_data) |-> face_data[i].id]

(* With connection = None, get_all_face_encodings evaluates                *)
(* self.connection.cursor(...), an AttributeError that                     *)
(* "except mysql.connector.Error" does not catch: it raises.               *)
get_all_face_encodings_raises(conn) == conn = "None"


(* The store as earlier sessions may have left it: empty, one user whose   *)
(* descriptor write failed (no descriptor row), or one enrolled user.      *)
InitialStores ==
    {[users |-> <<>>, face_encodings |-> <<>>],
     [users |-> <<[id |-> 1, name |-> "Alice"]>>, face_encodings |-> <<>>],
     [users |-> <<[id |-> 1, name |-> "Alice"]>>,
      face_encodings |-> <<[user_id |-> 1, encoding |-> pickle_dumps(<<0, 0>>)]>>]}

Init ==
    \E st \in InitialStores, conn_ok \in BOOLEAN, query_ok \in BOOLEAN :
        /\ users = st.users
        /\ face_encodings = st.face_encodings
        /\ attendance = <<>>
        /\ connection = IF conn_ok THEN "open" ELSE "None"
        /\ IF get_all_face_encodings_raises(connection)
           THEN /\ face_system = "absent"
                /\ known_face_encodings = <<>>
                /\ known_face_names = <<>>
                /\ known_face_ids = <<>>
                /\ ret = [NoCall EXCEPT !.op = "init", !.raised = TRUE]
           ELSE LET face_data == get_all_face_encodings(users, face_encodings, query_ok)
                IN /\ face_system = "constructed"
                   /\ known_face_encodings = LoadedEncodings(face_data)
                   /\ known_face_names = LoadedNames(face_data)
                   /\ known_face_ids = LoadedIds(face_data)
                   /\ ret = [NoCall EXCEPT !.op = "init", !.ok = TRUE, !.db_ok = <<query_ok>>]
        /\ prev = NoEnrollment
        /\ webcam_running = FALSE
        /\ loop = "idle"

(* app.py runs "if 'face_system' not in st.session_state" on every run of  *)
(* the script: while construction has not succeeded it is tried again.     *)
Construct(conn_ok, query_ok) ==
    /\ face_system = "absent"
    /\ connection' = IF conn_ok THEN "open" ELSE "None"
    /\ IF get_all_face_encodings_raises(connection')
       THEN /\ face_system' = "absent"
            /\ UNCHANGED gallery
            /\ ret' = [NoCall EXCEPT !.op = "init", !.raised = TRUE]
       ELSE LET face_data == get_all_face_encodings(users, face_encodings, query_ok)
            IN /\ face_system' = "constructed"
               /\ known_face_encodings' = LoadedEncodings(face_data)
               /\ known_face_names' = LoadedNames(face_data)
               /\ known_face_ids' = LoadedIds(face_data)
               /\ ret' = [NoCall EXCEPT !.op = "init", !.ok = TRUE, !.db_ok = <<query_ok>>]
    /\ prev' = Enrolled(ret)
    /\ UNCHANGED <<store, webcam_running, loop>>

----------------------------------------------------------------------------
(* FaceRecognitionSystem.load_known_faces *)

load_known_faces(query_ok) ==
    /\ face_system = "constructed"
    /\ loop = "idle"
    /\ LET face_data == get_all_face_encodings(users, face_encodings, query_ok)
       IN /\ known_face_encodings' = LoadedEncodings(face_data)
          /\ known_face_names' = LoadedNames(face_data)
          /\ known_face_ids' = LoadedIds(face_data)
    /\ ret' = [NoCall EXCEPT !.op = "load", !.ok = TRUE, !.db_ok = <<query_ok>>]
    /\ prev' = Enrolled(ret)
    /\ UNCHANGED <<connection, face_system, store, webcam_running, loop>>

----------------------------------------------------------------------------
(* FaceRecognitionSystem.register_new_face, called from register_page *)

(* the multiple-faces test off by one *)
multiple_faces_above_two(face_locations) == Len(face_locations) > 2

(* the gallery updated without looking at the descriptor write's result *)
should_append_ignoring_success(user_id, success) == user_id # None

(* the new entry put first *)
prepend_entry(list, x) == <<x>> \o list

no_face(face_locations) == Len(face_locations) = 0
multiple_faces(face_locations) == Len(face_locations) > 1

(* "if user_id:" and "if success:" *)
should_append(user_id, success) == user_id # None /\ success

(* an element already in the list not added again *)
append_entry_unique(list, x) ==
    IF \E k \in 1..Len(list) : list[k] = x THEN list ELSE Append(list, x)

append_entry(list, x) == Append(list, x)

register_new_face(name, face_image, user_ok, encoding_ok) ==
    /\ face_system = "constructed"
    /\ loop = "idle"
    /\ Len(users) < MaxUsers
    /\ (Len(face_image) # 1 \/ ~user_ok) => encoding_ok
    /\ LET face_locations == fr_face_locations(face_image)
           call == [NoCall EXCEPT !.op = "register", !.name = name, !.image = face_image]
       IN IF no_face(face_locations)
          THEN /\ ret' = [call EXCEPT !.message = MsgNoFace]
               /\ UNCHANGED <<gallery, store>>
          ELSE IF multiple_faces(face_locations)
          THEN /\ ret' = [call EXCEPT !.message = MsgMultipleFaces]
               /\ UNCHANGED <<gallery, store>>
          ELSE LET face_encoding == fr_face_encodings(face_image, face_locations)[1]
                   u == add_user(name, user_ok)
                   f == IF u.user_id # None
                        THEN add_face_encoding(u.user_id, face_encoding, encoding_ok)
                        ELSE [face_encodings |-> face_encodings, success |-> FALSE]
               IN /\ users' = u.users
                  /\ face_encodings' = f.face_encodings
                  /\ UNCHANGED attendance
                  /\ IF should_append(u.user_id, f.success)
                     THEN /\ known_face_encodings' = append_entry(known_face_encodings, face_encoding)
                          /\ known_face_names' = append_entry(known_face_names, name)
                          /\ known_face_ids' = append_entry(known_face_ids, u.user_id)
                          /\ ret' = [call EXCEPT !.ok = TRUE, !.message = MsgRegistered,
                                                 !.user_id = u.user_id, !.success = TRUE,
                                                 !.db_ok = <<user_ok, encoding_ok>>]
                     ELSE /\ UNCHANGED gallery
                          /\ ret' = [call EXCEPT !.message = MsgFailed,
                                                 !.user_id = u.user_id,
                                                 !.db_ok = <<user_ok, user_ok /\ encoding_ok>>]
    /\ prev' = Enrolled(ret)
    /\ UNCHANGED <<connection, face_system, webcam_running, loop>>

----------------------------------------------------------------------------
(* FaceRecognitionSystem.recognize_faces: the for loop over the frame's    *)
(* face encodings, from face k on.  acc carries face_names,                *)
(* recognized_ids, the attendance table and whether an exception left the  *)
(* loop.                                                                   *)

RECURSIVE recognize_from(_, _, _, _)
recognize_from(encodings, db_ok, k, acc) ==
    IF k > Len(encodings) \/ acc.raised
    THEN acc
    ELSE LET face_encoding == encodings[k]
             matches == compare_faces(known_face_encodings, face_encoding, Tolerance)
             face_distances == face_distance(known_face_encodings, face_encoding)
             best_match_index == argmin(face_distances)
             matched == Len(face_distances) > 0 /\ matches[best_match_index]
             name == IF matched THEN known_face_names[best_match_index] ELSE Unknown
             user_id == IF matched THEN known_face_ids[best_match_index] ELSE None
             rec == IF matched
                    THEN record_attendance(acc.attendance, user_id, db_ok[k])
                    ELSE [attendance |-> acc.attendance, result |-> TRUE, raised |-> FALSE]
         IN IF rec.raised
            THEN [acc EXCEPT !.attendance = rec.attendance, !.raised = TRUE]
            ELSE recognize_from(encodings, db_ok, k + 1,
                     [face_names |-> Append(acc.face_names, name),
                      recognized_ids |-> Append(acc.recognized_ids, user_id),
                      attendance |-> rec.attendance,
                      raised |-> FALSE])

recognize_faces(frame, db_ok) ==
    LET face_locations == fr_face_locations(frame)
        encodings == fr_face_encodings(frame, face_locations)
        r == recognize_from(encodings, db_ok, 1,
                 [face_names |-> <<>>, recognized_ids |-> <<>>,
                  attendance |-> attendance, raised |-> FALSE])
    IN [face_locations |-> IF r.raised THEN <<>> ELSE face_locations,
        face_names |-> IF r.raised THEN <<>> ELSE r.face_names,
        recognized_ids |-> IF r.raised THEN <<>> ELSE r.recognized_ids,
        attendance |-> r.attendance,
        raised |-> r.raised]

----------------------------------------------------------------------------
(* home_page: the start/stop button and the live-recognition loop *)

(* The "Start Webcam"/"Stop Webcam" button: the script runs again, toggles *)
(* webcam_running and, when it is now set, opens the camera and enters     *)
(* the loop.                                                               *)
ToggleWebcam(cap_ok) ==
    /\ face_system = "constructed"
    /\ IF ~webcam_running /\ cap_ok
       THEN webcam_running' = TRUE /\ loop' = "running"
       ELSE webcam_running' = FALSE /\ loop' = "idle"
    /\ UNCHANGED <<connection, face_system, store, gallery, ret, prev>>

(* Any other run of the script while webcam_running is set enters the loop *)
HomeRerun(cap_ok) ==
    /\ face_system = "constructed"
    /\ webcam_running
    /\ loop = "idle"
    /\ IF cap_ok
       THEN webcam_running' = TRUE /\ loop' = "running"
       ELSE webcam_running' = FALSE /\ loop' = "idle"
    /\ UNCHANGED <<connection, face_system, store, gallery, ret, prev>>

(* cap.read() returns ret = False *)
LoopCaptureFail ==
    /\ loop = "running"
    /\ webcam_running' = FALSE
    /\ loop' = "idle"
    /\ UNCHANGED <<connection, face_system, store, gallery, ret, prev>>

(* One iteration whose frame is processed: recognize_faces returns and the *)
(* loop tests webcam_running again.  An exception out of recognize_faces   *)
(* reaches "except Exception" outside the while loop.                      *)
LoopRecognize(frame, db_ok) ==
    /\ loop = "running"
    /\ Len(attendance) + Len(frame) <= MaxAttendance
    /\ LET r == recognize_faces(frame, db_ok)
       IN /\ \A i \in 1..Len(r.recognized_ids) : r.recognized_ids[i] = None => db_ok[i]
          /\ attendance' = r.attendance
          /\ ret' = [NoCall EXCEPT !.op = "recognize", !.image = frame,
                                   !.ok = ~r.raised, !.raised = r.raised,
                                   !.face_locations = r.face_locations,
                                   !.face_names = r.face_names,
                                   !.recognized_ids = r.recognized_ids,
                                   !.db_ok = db_ok]
          /\ loop' = IF r.raised THEN "idle" ELSE "running"
    /\ prev' = Enrolled(ret)
    /\ UNCHANGED <<connection, face_system, users, face_encodings, gallery, webcam_running>>

(* One iteration in which cv2.cvtColor or the extractor raises inside      *)
(* recognize_faces, before any face is processed: the exception leaves the *)
(* while loop through "except Exception"; webcam_running is not reset.     *)
LoopFrameError ==
    /\ loop = "running"
    /\ ret' = [NoCall EXCEPT !.op = "recognize", !.raised = TRUE]
    /\ prev' = Enrolled(ret)
    /\ loop' = "idle"
    /\ UNCHANGED <<connection, face_system, store, gallery, webcam_running>>

----------------------------------------------------------------------------

Next ==
    \/ \E conn_ok \in BOOLEAN, query_ok \in BOOLEAN : Construct(conn_ok, query_ok)
    \/ \E query_ok \in BOOLEAN : load_known_faces(query_ok)
    \/ \E name \in Names, face_image \in Images, user_ok \in BOOLEAN, encoding_ok \in BOOLEAN :
          register_new_face(name, face_image, user_ok, encoding_ok)
    \/ \E cap_ok \in BOOLEAN : ToggleWebcam(cap_ok)
    \/ \E cap_ok \in BOOLEAN : HomeRerun(cap_ok)
    \/ LoopCaptureFail
    \/ \E frame \in Images : \E db_ok \in [1..Len(frame) -> BOOLEAN] : LoopRecognize(frame, db_ok)
    \/ LoopFrameError

Spec == Init /\ [][Next]_vars

----------------------------------------------------------------------------
(* Steps and expectations the properties below are stated with *)

(* A step that is a call of register_new_face (the session's loop state is *)
(* untouched by it, and changed by every step that leaves ret alone).      *)
RegisterStep == ret'.op = "register" /\ UNCHANGED <<webcam_running, loop>>

(* A step of the live loop in which recognize_faces returned *)
RecognizeStep ==
    loop = "running" /\ loop' = "running" /\ ret'.op = "recognize" /\ ~ret'.raised

Rows(table) == {table[k] : k \in 1..Len(table)}

(* The gallery entries at minimum distance from a descriptor, and the      *)
(* first of them in gallery order.                                         *)
Closest(e) ==
    {j \in 1..Len(known_face_encodings) :
        \A k \in 1..Len(known_face_encodings) :
            SqDist(known_face_encodings[j], e) <= SqDist(known_face_encodings[k], e)}
FirstClosest(e) == CHOOSE j \in Closest(e) : \A k \in Closest(e) : j <= k
ExpectedLabel(e) ==
    IF /\ Len(known_face_encodings) > 0
       /\ SqDist(known_face_encodings[FirstClosest(e)], e) <= Tolerance * Tolerance
    THEN [name |-> known_face_names[FirstClosest(e)], id |-> known_face_ids[FirstClosest(e)]]
    ELSE [name |-> Unknown, id |-> None]

(* The ids of the faces of a recognition result that carry an identity, in *)
(* frame order.                                                            *)
LabeledIds(ids) == SelectSeq(ids, LAMBDA x : x # None)

IsPrefix(a, b) == Len(a) <= Len(b) /\ SubSeq(b, 1, Len(a)) = a

----------------------------------------------------------------------------
(* C1: a call of register_new_face with an image whose detected face count *)
(* is not exactly 1 returns a failure (the no-face message for 0 faces,    *)
(* the multiple-faces message for 2 or more) and changes nothing: the      *)
(* gallery lists and the users, face_encodings and attendance tables are   *)
(* as before.                                                              *)
C1_RejectedImageChangesNothing ==
    [][(RegisterStep /\ Len(ret'.image) # 1) =>
          /\ ~ret'.ok
          /\ ret'.message = (IF Len(ret'.image) = 0 THEN MsgNoFace ELSE MsgMultipleFaces)
          /\ UNCHANGED <<gallery, store>>]_vars

C1_Witness ==
    /\ ret.op = "register"
    /\ Len(ret.image) >= 2
    /\ ret.message = MsgMultipleFaces
    /\ Len(known_face_ids) > 0

(* C2: a call of register_new_face with a single-face image whose identity *)
(* write and descriptor write both succeed returns success and appends     *)
(* exactly one entry, last, with the id the store assigned (the id of the  *)
(* new users row), the given name and the extractor's descriptor; earlier  *)
(* entries are unchanged, whether or not the name or descriptor is already *)
(* enrolled.                                                               *)
C2_SuccessAppendsOneEntry ==
    [][(RegisterStep /\ ret' # ret /\ Len(ret'.image) = 1 /\ ret'.db_ok = <<TRUE, TRUE>>) =>
          /\ ret'.ok
          /\ ret'.message = MsgRegistered
          /\ Len(users') = Len(users) + 1
          /\ users'[Len(users')] = [id |-> ret'.user_id, name |-> ret'.name]
          /\ Len(known_face_ids') = Len(known_face_ids) + 1
          /\ known_face_encodings' = known_face_encodings \o <<ret'.image[1]>>
          /\ known_face_names' = known_face_names \o <<ret'.name>>
          /\ known_face_ids' = known_face_ids \o <<ret'.user_id>>]_vars

C2_Witness ==
    /\ ret.op = "register"
    /\ ret.ok
    /\ Len(known_face_ids) = 2
    /\ known_face_ids[2] = ret.user_id
    /\ known_face_names[1] = known_face_names[2]
    /\ known_face_encodings[1] = known_face_encodings[2]

(* C3: in every reachable state every gallery entry has its identity row   *)
(* (same id and name) in users and its descriptor row (same id, the same   *)
(* descriptor once unpickled) in face_encodings: no entry is in memory     *)
(* without both rows committed.                                            *)
C3_GalleryEntriesArePersisted ==
    \A i \in 1..Len(known_face_ids) :
        /\ i <= Len(known_face_names) /\ i <= Len(known_face_encodings)
        /\ [id |-> known_face_ids[i], name |-> known_face_names[i]] \in Rows(users)
        /\ \E f \in Rows(face_encodings) :
              /\ f.user_id = known_face_ids[i]
              /\ pickle_loads(f.encoding) = known_face_encodings[i]

C3_Witness ==
    /\ Len(known_face_ids) >= 1
    /\ ret.op = "register"
    /\ ret.ok
    /\ \E u \in Rows(users) : \A f \in Rows(face_encodings) : f.user_id # u.id

(* C4: a call of register_new_face with a single-face image in which the   *)
(* identity write fails, or the identity write succeeds and the descriptor *)
(* write fails, returns a failure and leaves the gallery unchanged; in the *)
(* second case the store gains exactly one users row, which has no         *)
(* face_encodings row, and nothing else in the store changes.              *)
C4_FailedWriteLeavesGallery ==
    [][(RegisterStep /\ Len(ret'.image) = 1 /\ ret'.db_ok # <<TRUE, TRUE>>
          /\ (ret' # ret \/ ~ret'.db_ok[1])) =>
          /\ ~ret'.ok
          /\ ret'.message = MsgFailed
          /\ UNCHANGED <<gallery, face_encodings, attendance>>
          /\ IF ret'.db_ok[1]
             THEN /\ users' = users \o <<[id |-> ret'.user_id, name |-> ret'.name]>>
                  /\ \A f \in Rows(face_encodings') : f.user_id # ret'.user_id
             ELSE users' = users]_vars

C4_Witness ==
    /\ ret.op = "register"
    /\ ret.db_ok = <<TRUE, FALSE>>
    /\ ret.message = MsgFailed
    /\ Len(known_face_ids) >= 1
    /\ users[Len(users)].id = ret.user_id
    /\ \A f \in Rows(face_encodings) : f.user_id # ret.user_id

(* C5: after recognize_faces returns, every face of the frame carries the  *)
(* name and id of the first gallery entry at minimum distance exactly when *)
(* the gallery is non-empty and that distance is within the tolerance, and *)
(* "Unknown" with a null id in every other case.                           *)
C5_LabelIsNearestWithinTolerance ==
    (ret.op = "recognize" /\ ~ret.raised) =>
        /\ Len(ret.face_names) = Len(ret.image)
        /\ Len(ret.recognized_ids) = Len(ret.image)
        /\ \A i \in 1..Len(ret.image) :
              /\ ret.face_names[i] = ExpectedLabel(ret.image[i]).name
              /\ ret.recognized_ids[i] = ExpectedLabel(ret.image[i]).id

C5_Witness ==
    /\ ret.op = "recognize"
    /\ Len(ret.image) = 2
    /\ Len(known_face_ids) = 2
    /\ known_face_encodings[1] # known_face_encodings[2]
    /\ Cardinality(Closest(ret.image[1])) = 2
    /\ ret.recognized_ids[1] = known_face_ids[1]
    /\ ret.recognized_ids[2] = known_face_ids[2]

(* C6: a recognize_faces call whose attendance writes all succeed appends  *)
(* to the attendance table exactly the ids of the faces it labeled with an *)
(* identity, in frame order, and nothing for "Unknown" faces; and no step  *)
(* of the system modifies or removes an attendance row.                    *)
C6_OneRowPerLabeledFace ==
    [][/\ IsPrefix(attendance, attendance')
       /\ (RecognizeStep /\ (\A i \in 1..Len(ret'.db_ok) : ret'.db_ok[i])) =>
              attendance' = attendance \o LabeledIds(ret'.recognized_ids)]_vars

C6_Witness ==
    /\ ret.op = "recognize"
    /\ Len(ret.image) = 1
    /\ ret.db_ok = <<TRUE>>
    /\ ret.recognized_ids[1] # None
    /\ attendance = <<ret.recognized_ids[1], ret.recognized_ids[1]>>

(* C7: a recognize_faces call in which an attendance write fails still     *)
(* returns, without raising, a bounding box and a label for every face of  *)
(* the frame (the matched identity for the face whose write failed, and    *)
(* the labels of the faces after it), and leaves the gallery unchanged.    *)
C7_AttendanceFailureIsSwallowed ==
    [][(loop = "running" /\ ret'.op = "recognize"
          /\ \E i \in 1..Len(ret'.db_ok) : ~ret'.db_ok[i]) =>
          /\ ~ret'.raised
          /\ ret'.face_locations = fr_face_locations(ret'.image)
          /\ Len(ret'.face_names) = Len(ret'.image)
          /\ Len(ret'.recognized_ids) = Len(ret'.image)
          /\ \A i \in 1..Len(ret'.image) :
                /\ ret'.face_names[i] = ExpectedLabel(ret'.image[i]).name
                /\ ret'.recognized_ids[i] = ExpectedLabel(ret'.image[i]).id
                /\ ~ret'.db_ok[i] => ret'.recognized_ids[i] # None
          /\ UNCHANGED gallery]_vars

C7_Witness ==
    /\ ret.op = "recognize"
    /\ Len(ret.image) = 2
    /\ ~ret.db_ok[1]
    /\ ret.recognized_ids[1] # None
    /\ Len(ret.face_names) = 2
    /\ ret.recognized_ids[2] # None

(* C8: when the connection attempt of DatabaseManager.connect has failed   *)
(* (connection is None), construction of FaceRecognitionSystem completed   *)
(* without raising and the gallery is empty.                               *)
C8_UnreachableStoreStartsEmpty ==
    connection = "None" =>
        /\ face_system = "constructed"
        /\ ~ret.raised
        /\ known_face_encodings = <<>>
        /\ known_face_names = <<>>
        /\ known_face_ids = <<>>

(* C9, as claimed: recognize_faces on the single-face image that the call  *)
(* just before it enrolled successfully labels the face with the enrolled  *)
(* name and the id just assigned.                                          *)
C9_RoundTripLabelsEnrolled ==
    (ret.op = "recognize" /\ ~ret.raised /\ prev # NoEnrollment
        /\ ret.image = <<prev.encoding>>) =>
        /\ ret.face_names = <<prev.name>>
        /\ ret.recognized_ids = <<prev.user_id>>

(* C9, amended: recognize_faces on the single-face image that the call     *)
(* just before it enrolled successfully labels the face with the name and  *)
(* id of the first gallery entry whose descriptor equals the image's; that *)
(* is the enrolled name and the id just assigned when no earlier entry has *)
(* that descriptor.                                                        *)
C9_RoundTripLabelsFirstEqual ==
    (ret.op = "recognize" /\ ~ret.raised /\ prev # NoEnrollment
        /\ ret.image = <<prev.encoding>>) =>
        LET same == {j \in 1..Len(known_face_encodings) :
                        known_face_encodings[j] = prev.encoding}
            first == CHOOSE j \in same : \A k \in same : j <= k
        IN /\ same # {}
           /\ ret.face_names = <<known_face_names[first]>>
           /\ ret.recognized_ids = <<known_face_ids[first]>>
           /\ known_face_ids[first] = prev.user_id =>
                 ret.face_names = <<prev.name>>
           /\ Cardinality(same) = 1 =>
                 /\ ret.face_names = <<prev.name>>
                 /\ ret.recognized_ids = <<prev.user_id>>

C9_Witness ==
    /\ ret.op = "recognize"
    /\ ~ret.raised
    /\ prev # NoEnrollment
    /\ ret.image = <<prev.encoding>>
    /\ Len(known_face_ids) = 2
    /\ ret.recognized_ids = <<prev.user_id>>
    /\ ret.face_names = <<prev.name>>

(* C10: a frame whose processing raises inside recognize_faces, with no    *)
(* stop requested (webcam_running stays set), leaves the live loop         *)
(* running.                                                                *)
C10_FrameErrorKeepsLoopRunning ==
    [][(loop = "running" /\ ret'.op = "recognize" /\ ret'.raised /\ webcam_running') =>
          loop' = "running"]_vars

(* C11: in every reachable state the three gallery lists have the same     *)
(* length and index i of each belongs to one enrolled entry (the users row *)
(* with that id has that name, and a face_encodings row of that id holds   *)
(* that descriptor); every identity a recognition returned is the name and *)
(* id of one gallery index; recognize_faces never changes the lists, and   *)
(* register_new_face only extends them, keeping the existing entries in    *)
(* place.                                                                  *)
C11_ShapeInState ==
    /\ Len(known_face_encodings) = Len(known_face_names)
    /\ Len(known_face_names) = Len(known_face_ids)
    /\ \A i \in 1..Len(known_face_ids) :
          /\ \E u \in Rows(users) :
                u.id = known_face_ids[i] /\ u.name = known_face_names[i]
          /\ \E f \in Rows(face_encodings) :
                /\ f.user_id = known_face_ids[i]
                /\ f.encoding = pickle_dumps(known_face_encodings[i])
    /\ (ret.op = "recognize" /\ ~ret.raised) =>
          \A i \in 1..Len(ret.recognized_ids) :
              ret.recognized_ids[i] # None =>
                  \E j \in 1..Len(known_face_ids) :
                      /\ j <= Len(known_face_names)
                      /\ known_face_ids[j] = ret.recognized_ids[i]
                      /\ known_face_names[j] = ret.face_names[i]

C11_GalleryShape ==
    /\ []C11_ShapeInState
    /\ [][/\ ret'.op = "recognize" => UNCHANGED gallery
          /\ RegisterStep =>
                /\ IsPrefix(known_face_encodings, known_face_encodings')
                /\ IsPrefix(known_face_names, known_face_names')
                /\ IsPrefix(known_face_ids, known_face_ids')]_vars

C11_Witness ==
    /\ ret.op = "recognize"
    /\ ~ret.raised
    /\ Len(known_face_ids) = 2
    /\ known_face_names[1] = known_face_names[2]
    /\ known_face_encodings[1] # known_face_encodings[2]
    /\ ret.recognized_ids = <<known_face_ids[2]>>
    /\ ret.face_names = <<known_face_names[2]>>

=============================================================================
